---- MODULE Spec2Model ----
(***************************************************************************)
(* Verification model of the Real-time data processor.                     *)
(*                                                                         *)
(*   RateLimiter   backend/middleware/rateLimiter.js                       *)
(*   DataGenerator backend/services/dataGenerator.js (producer + hub)      *)
(*   useWebSocket  frontend/src/hooks/useWebSocket.js (stream client)      *)
(*   useDataBuffer frontend/src/hooks/useDataBuffer.js (client buffer)     *)
(*                                                                         *)
(* Each component has its own specification (SpecLimiter, SpecProducer,    *)
(* SpecClient, SpecBuffer); the components share no state.                 *)
(***************************************************************************)
EXTENDS Integers, Sequences, FiniteSets, TLC

Min(a, b) == IF a < b THEN a ELSE b

(***************************************************************************)
(* RateLimiter                                                             *)
(***************************************************************************)

\* options.windowMs and options.maxRequests, scaled down
windowMs == 5
maxRequests == 2
\* last instant of the clock
MaxTime == 11

Keys == {"ip1", "ip2"}

VARIABLES
    now,              \* Date.now()
    buckets,          \* this.buckets: key -> {tokens, lastRefill, firstRequest}
    ret,              \* what the last limiter operation did and returned
    allowedInWindow,  \* history: allowed calls within windowMs of firstRequest
    callsOnBucket,    \* history: consume calls on the bucket, saturating
    lastAllowed       \* history: time of the key's last allowed consume, -1 if none

limiterVars == <<now, buckets, ret, allowedInWindow, callsOnBucket, lastAllowed>>

NoRet == [op |-> "none", key |-> "", allowed |-> FALSE, remaining |-> 0,
          resetTime |-> -1, before |-> -1, avail |-> 0, idle |-> -1,
          created |-> FALSE]

\* Math.floor((timePassed / this.windowMs) * this.maxRequests)
TokensToAdd_ceil(timePassed) == (timePassed * maxRequests + windowMs - 1) \div windowMs
TokensToAdd(timePassed) == (timePassed * maxRequests) \div windowMs

\* Math.min(this.maxRequests, bucket.tokens + tokensToAdd)
RefilledTokens_nocap(tokens, tokensToAdd) == tokens + tokensToAdd
RefilledTokens(tokens, tokensToAdd) == Min(maxRequests, tokens + tokensToAdd)

\* if (tokensToAdd > 0)
Refills_always(tokensToAdd) == TRUE
Refills(tokensToAdd) == tokensToAdd > 0

refillTokens(bucket, t) ==
    LET tokensToAdd == TokensToAdd(t - bucket.lastRefill)
    IN  IF Refills(tokensToAdd)
        THEN [bucket EXCEPT !.tokens = RefilledTokens(bucket.tokens, tokensToAdd),
                            !.lastRefill = t]
        ELSE bucket

\* tokens: this.maxRequests - 1 for a bucket created by the call itself
InitialTokens_full == maxRequests
InitialTokens == maxRequests - 1

\* bucket.lastRefill + this.windowMs
ResetTime_now(bucket, t) == t
ResetTime(bucket, t) == bucket.lastRefill + windowMs

\* this.buckets.set(ip, bucket)
SetBucket_shared(ip, bucket) ==
    [k \in (DOMAIN buckets) \cup {ip} |-> bucket]
SetBucket(ip, bucket) ==
    [k \in (DOMAIN buckets) \cup {ip} |-> IF k = ip THEN bucket ELSE buckets[k]]

Idle(ip) == IF lastAllowed[ip] < 0 THEN -1 ELSE now - lastAllowed[ip]

\* bucket.tokens--
Decrement_lost(tokens) == tokens
Decrement(tokens) == tokens - 1

consumeBody(ip) ==
       IF ip \notin DOMAIN buckets
       THEN LET bucket == [tokens |-> InitialTokens, lastRefill |-> now,
                           firstRequest |-> now]
            IN  /\ buckets' = SetBucket(ip, bucket)
                /\ ret' = [NoRet EXCEPT !.op = "consume", !.key = ip,
                              !.allowed = TRUE, !.remaining = bucket.tokens,
                              !.avail = bucket.tokens + 1, !.idle = Idle(ip),
                              !.created = TRUE]
                /\ allowedInWindow' = [allowedInWindow EXCEPT ![ip] = 1]
                /\ lastAllowed' = [lastAllowed EXCEPT ![ip] = now]
                /\ callsOnBucket' = [callsOnBucket EXCEPT ![ip] = 1]
       ELSE LET bucket == refillTokens(buckets[ip], now)
                inWindow == now - bucket.firstRequest < windowMs
            IN  /\ callsOnBucket' = [callsOnBucket EXCEPT
                                        ![ip] = Min(@ + 1, maxRequests + 1)]
                /\ IF bucket.tokens > 0
                   THEN /\ buckets' = SetBucket(ip, [bucket EXCEPT
                                                        !.tokens = Decrement(@)])
                        /\ ret' = [NoRet EXCEPT !.op = "consume", !.key = ip,
                                      !.allowed = TRUE,
                                      !.remaining = bucket.tokens - 1,
                                      !.before = buckets[ip].tokens,
                                      !.avail = bucket.tokens, !.idle = Idle(ip)]
                        /\ lastAllowed' = [lastAllowed EXCEPT ![ip] = now]
                        /\ allowedInWindow' =
                              [allowedInWindow EXCEPT
                                  ![ip] = IF inWindow THEN @ + 1 ELSE @]
                   ELSE \* refillTokens mutated the stored bucket object in place
                        /\ buckets' = SetBucket(ip, bucket)
                        /\ ret' = [NoRet EXCEPT !.op = "consume", !.key = ip,
                                      !.allowed = FALSE, !.remaining = 0,
                                      !.resetTime = ResetTime(bucket, now),
                                      !.before = buckets[ip].tokens,
                                      !.avail = bucket.tokens, !.idle = Idle(ip)]
                        /\ UNCHANGED <<allowedInWindow, lastAllowed>>

\* consume(ip), called at the instant now; the body has no await, so a call
\* runs to its return before any other call on the event loop starts
consume(ip) ==
    /\ consumeBody(ip)
    /\ UNCHANGED now

\* now - bucket.lastRefill > expiryTime, expiryTime = this.windowMs * 2
Expired_short(bucket, t) == t - bucket.lastRefill > windowMs
Expired_any(bucket, t) == TRUE
Expired(bucket, t) == t - bucket.lastRefill > windowMs * 2

cleanup ==
    /\ \E ip \in DOMAIN buckets : Expired(buckets[ip], now)
    /\ LET kept == {ip \in DOMAIN buckets : ~Expired(buckets[ip], now)}
       IN  buckets' = [ip \in kept |-> buckets[ip]]
    /\ ret' = [NoRet EXCEPT !.op = "cleanup"]
    /\ UNCHANGED <<now, allowedInWindow, callsOnBucket, lastAllowed>>

\* the clock advances between calls
AdvanceClock ==
    /\ now < MaxTime
    /\ now' = now + 1
    /\ ret' = [NoRet EXCEPT !.op = "advance"]
    /\ UNCHANGED <<buckets, allowedInWindow, callsOnBucket, lastAllowed>>

LimiterInit ==
    /\ now = 0
    /\ buckets = <<>>
    /\ ret = NoRet
    /\ allowedInWindow = [k \in Keys |-> 0]
    /\ callsOnBucket = [k \in Keys |-> 0]
    /\ lastAllowed = [k \in Keys |-> -1]

LimiterNext ==
    \/ \E ip \in Keys : consume(ip)
    \/ cleanup
    \/ AdvanceClock

(***************************************************************************)
(* createRateLimiter: the middleware in front of the gated routes          *)
(***************************************************************************)

\* the divisor 1000 of the Retry-After header (milliseconds in a second),
\* scaled down with windowMs
MsPerSecond == 2
\* the clock advances by at most this much between the Date.now() of consume
\* and the Date.now() of the Retry-After header
MaxLate == 1

\* the middleware is checked on the requests of one client
GatedKeys == {"ip1"}

VARIABLES
    res,       \* the response to the last request and the calls of next() for it
    admitted   \* history: the instants of the allowed consume calls, in order

middlewareVars == <<res, admitted>>

NoRes == [done |-> FALSE, headers |-> {}, limit |-> 0, remaining |-> 0,
          reset |-> [iso |-> -1], retryAfter |-> 0, status |-> 200,
          nextCalls |-> 0]

\* result.resetTime.toISOString()
toISOString(t) == [iso |-> t]

\* Math.ceil((result.resetTime - Date.now()) / 1000)
RetryAfter(resetTime, t) == -((t - resetTime) \div MsPerSecond)

\* a denied request returns before next(); an allowed one reaches next()
CallsNext_always(result) == 1
CallsNext(result) == IF result.allowed THEN 1 ELSE 0

\* the headers, status and next() call the middleware makes for a result of
\* consume; t is the Date.now() read for the Retry-After header
Respond(result, t) ==
    LET base == [NoRes EXCEPT !.done = TRUE,
                              !.headers = {"X-RateLimit-Limit", "X-RateLimit-Remaining"},
                              !.limit = maxRequests,
                              !.remaining = result.remaining,
                              !.nextCalls = CallsNext(result)]
    IN  IF ~result.allowed
        THEN [base EXCEPT !.headers = @ \cup {"X-RateLimit-Reset", "Retry-After"},
                          !.reset = toISOString(result.resetTime),
                          !.retryAfter = RetryAfter(result.resetTime, t),
                          !.status = 429]
        ELSE base

\* the middleware returned by createRateLimiter, for a request of client ip
rateLimiter(ip) ==
    /\ consumeBody(ip)
    /\ \E late \in 0..MaxLate :
          /\ now + late <= MaxTime
          /\ now' = now + late
          /\ res' = Respond(ret', now + late)
    /\ admitted' = IF ret'.allowed THEN Append(admitted, now) ELSE admitted

\* the limiter's interval timer between requests
MiddlewareCleanup ==
    /\ cleanup
    /\ res' = NoRes
    /\ UNCHANGED admitted

MiddlewareClock ==
    /\ AdvanceClock
    /\ res' = NoRes
    /\ UNCHANGED admitted

MiddlewareInit ==
    /\ res = NoRes
    /\ admitted = <<>>

MiddlewareNext ==
    \/ \E ip \in GatedKeys : rateLimiter(ip)
    \/ MiddlewareCleanup
    \/ MiddlewareClock

(***************************************************************************)
(* RateLimiter properties                                                  *)
(***************************************************************************)

IsConsume == ret.op = "consume"

NoRefillYet(bucket) == bucket.lastRefill = bucket.firstRequest

\* C1 (as stated): among the consume calls of a key made less than windowMs
\* after the key's first call, at most maxRequests are allowed.
C1_AtMostQuotaInWindow ==
    \A k \in Keys : allowedInWindow[k] <= maxRequests

\* C1 (amended): among the consume calls of a key made less than windowMs
\* after its first call, at most maxRequests + floor(elapsed * maxRequests /
\* windowMs) are allowed, elapsed being the time since the first call (fewer
\* than 2 * maxRequests in all); while no refill has happened the
\* (maxRequests + 1)-th and later calls are denied; and every denied call
\* returns resetTime = the bucket's lastRefill + windowMs, which is in the
\* future.
C1_WindowQuota ==
    /\ \A k \in DOMAIN buckets :
          LET first == buckets[k].firstRequest
              elapsed == Min(now, first + windowMs - 1) - first
          IN  /\ allowedInWindow[k] <= maxRequests + ((elapsed * maxRequests) \div windowMs)
              /\ allowedInWindow[k] < 2 * maxRequests
    /\ IsConsume =>
          /\ (callsOnBucket[ret.key] > maxRequests /\ NoRefillYet(buckets[ret.key]))
                => ~ret.allowed
          /\ ~ret.allowed =>
                /\ ret.remaining = 0
                /\ ret.resetTime = buckets[ret.key].lastRefill + windowMs
                /\ ret.resetTime > now

\* a call denied inside the first window after more than maxRequests were allowed
C1_Witness ==
    /\ IsConsume /\ ~ret.allowed
    /\ now - buckets[ret.key].firstRequest < windowMs
    /\ allowedInWindow[ret.key] > maxRequests

\* C9: a consume made when at least windowMs has passed since the key's last
\* allowed consume finds exactly maxRequests tokens available (never more),
\* whatever the count was before, and so is allowed with remaining =
\* maxRequests - 1; no bucket ever holds more than maxRequests tokens.
C9_FullWindowRefill ==
    /\ \A k \in DOMAIN buckets : buckets[k].tokens <= maxRequests
    /\ (IsConsume /\ ret.idle >= windowMs) =>
          /\ ret.avail = maxRequests
          /\ ret.allowed
          /\ ret.remaining = maxRequests - 1

\* an exhausted bucket (0 tokens) consumed again after an idle window
C9_Witness ==
    /\ IsConsume /\ ret.idle >= windowMs
    /\ ~ret.created /\ ret.before = 0
    /\ ret.remaining = maxRequests - 1

\* C10: the first consume of an unseen key creates a bucket with tokens =
\* maxRequests - 1 and lastRefill = now and returns allowed with remaining =
\* maxRequests - 1; the n-th of up to maxRequests consecutive calls with no
\* refill in between is allowed with remaining = maxRequests - n.
C10_FirstCallCountdown ==
    IsConsume =>
        LET bucket == buckets[ret.key]
            n == callsOnBucket[ret.key]
        IN  /\ ret.created =>
                  /\ bucket = [tokens |-> maxRequests - 1, lastRefill |-> now,
                               firstRequest |-> now]
                  /\ ret.allowed /\ ret.remaining = maxRequests - 1
            /\ (NoRefillYet(bucket) /\ n <= maxRequests) =>
                  /\ ret.allowed
                  /\ ret.remaining = maxRequests - n
                  /\ bucket.tokens = ret.remaining

\* the last call of the countdown: remaining 0, still allowed
C10_Witness ==
    /\ IsConsume /\ ret.allowed /\ ret.remaining = 0
    /\ NoRefillYet(buckets[ret.key])
    /\ callsOnBucket[ret.key] = maxRequests

\* C11: a consume for one key leaves the bucket of every other key as it
\* was (present or absent, same tokens, lastRefill and firstRequest), and its
\* outcome is decided by the key's own bucket and the clock alone: allowed
\* exactly when the key has no bucket or its own tokens plus its own refill
\* are positive.
C11_KeyIsolation ==
    [][ret'.op = "consume" =>
          LET k == ret'.key
          IN  /\ \A k2 \in Keys \ {k} :
                    /\ (k2 \in DOMAIN buckets) <=> (k2 \in DOMAIN buckets')
                    /\ k2 \in DOMAIN buckets => buckets'[k2] = buckets[k2]
              /\ ret'.allowed <=>
                    \/ k \notin DOMAIN buckets
                    \/ buckets[k].tokens
                         + (((now - buckets[k].lastRefill) * maxRequests) \div windowMs) > 0
       ]_limiterVars

\* one key has been exhausted and denied, the first call of the other key is
\* allowed with a full quota
C11_Witness ==
    /\ IsConsume /\ ret.key = "ip2" /\ ret.created
    /\ ret.allowed /\ ret.remaining = maxRequests - 1
    /\ "ip1" \in DOMAIN buckets
    /\ buckets["ip1"].tokens = 0
    /\ callsOnBucket["ip1"] > maxRequests

KnownIdle(k) == lastAllowed[k] >= 0

\* C12 (as stated): cleanup() removes every bucket whose key has been idle
\* for more than 2 * windowMs, retains every bucket idle for less than
\* 2 * windowMs, and leaves a retained bucket as it was.
C12_SweepByIdleness ==
    [][ret'.op = "cleanup" =>
          \A k \in DOMAIN buckets :
             LET idle == now - lastAllowed[k]
             IN  /\ idle > 2 * windowMs => k \notin DOMAIN buckets'
                 /\ idle < 2 * windowMs =>
                       /\ k \in DOMAIN buckets'
                       /\ buckets'[k] = buckets[k]
       ]_limiterVars

\* C12 (amended): cleanup() removes exactly the buckets whose lastRefill is
\* more than 2 * windowMs old; so it removes every bucket idle for more than
\* 2 * windowMs and retains every bucket idle for at most 2 * windowMs -
\* windowMs / maxRequests; it leaves a retained bucket as it was.
C12_SweepByLastRefill ==
    [][ret'.op = "cleanup" =>
          \A k \in DOMAIN buckets :
             LET idle == now - lastAllowed[k]
                 old == now - buckets[k].lastRefill > 2 * windowMs
             IN  /\ old <=> k \notin DOMAIN buckets'
                 /\ ~old => buckets'[k] = buckets[k]
                 /\ idle > 2 * windowMs => old
                 /\ idle * maxRequests + windowMs <= 2 * windowMs * maxRequests => ~old
       ]_limiterVars

\* a sweep has removed the bucket of a key idle for less than 2 * windowMs
\* and retained the bucket of the other key
C12_Witness ==
    /\ ret.op = "cleanup"
    /\ \E k \in Keys \ DOMAIN buckets :
          /\ KnownIdle(k)
          /\ now - lastAllowed[k] < 2 * windowMs
    /\ DOMAIN buckets # {}

\* C20: every response of the middleware carries the limit and the remaining
\* count; a denied request gets status 429, the reset time, a retry-after
\* that is not negative, and no call of next(); an allowed request gets one
\* call of next(), no error status and no denial header.
C20_AdmissionResponse ==
    res.done =>
        /\ IsConsume
        /\ {"X-RateLimit-Limit", "X-RateLimit-Remaining"} \subseteq res.headers
        /\ res.limit = maxRequests
        /\ res.remaining = ret.remaining
        /\ ~ret.allowed =>
              /\ res.status = 429
              /\ {"X-RateLimit-Reset", "Retry-After"} \subseteq res.headers
              /\ res.reset = [iso |-> ret.resetTime]
              /\ res.retryAfter >= 0
              /\ res.retryAfter * MsPerSecond >= ret.resetTime - now
              /\ res.nextCalls = 0
        /\ ret.allowed =>
              /\ res.nextCalls = 1
              /\ res.status < 400
              /\ res.headers = {"X-RateLimit-Limit", "X-RateLimit-Remaining"}

\* a request was denied after the quota was used up: it got 429 with a
\* positive retry-after and did not reach next()
C20_Witness ==
    /\ res.done
    /\ ~ret.allowed
    /\ callsOnBucket[ret.key] > maxRequests
    /\ res.status = 429
    /\ res.retryAfter > 0
    /\ res.nextCalls = 0

\* the tokens a consume call for ip finds: a full bucket for a key without
\* one, else the stored count after the refill for the time passed
Available(ip) ==
    IF ip \notin DOMAIN buckets
    THEN maxRequests
    ELSE refillTokens(buckets[ip], now).tokens

\* C30: every consume call acts on the count its predecessors left: it is
\* allowed exactly when the refilled count of its key is positive, it stores
\* that count less one when allowed and that count (zero) when denied, it
\* reports the stored count, and it leaves the other keys alone; the stored
\* count never falls below zero nor rises above the capacity.
C30_ConsumeIsAtomic ==
    /\ [](\A ip \in DOMAIN buckets : buckets[ip].tokens \in 0..maxRequests)
    /\ [][\A ip \in Keys :
             consume(ip) =>
                /\ ret'.allowed = (Available(ip) > 0)
                /\ buckets'[ip].tokens =
                      IF ret'.allowed THEN Available(ip) - 1 ELSE Available(ip)
                /\ ret'.remaining = buckets'[ip].tokens
                /\ \A k \in DOMAIN buckets \ {ip} : buckets'[k] = buckets[k]
         ]_limiterVars

\* a call is denied at the instant at which an earlier call for the same key
\* took the last token: it saw the count that call stored
C30_Witness ==
    /\ ret.op = "consume"
    /\ ~ret.allowed
    /\ ~ret.created
    /\ ret.before = 0
    /\ lastAllowed[ret.key] = now
    /\ buckets[ret.key].lastRefill < now

\* C31: every bucket holds between 0 and maxRequests tokens and a lastRefill
\* that is not in the future and never decreases; a consume on an existing
\* bucket adds floor(elapsed / windowMs * maxRequests) tokens, capped at
\* maxRequests, and sets lastRefill to now only when that amount is positive,
\* then takes one token if any is left; a denied consume leaves the bucket as
\* it was.
C31_BucketInvariant ==
    /\ [](\A ip \in DOMAIN buckets :
             /\ buckets[ip].tokens \in 0..maxRequests
             /\ buckets[ip].lastRefill <= now)
    /\ [][\A ip \in (DOMAIN buckets) \cap (DOMAIN buckets') :
             buckets'[ip].lastRefill >= buckets[ip].lastRefill]_limiterVars
    /\ [][\A ip \in DOMAIN buckets :
             consume(ip) =>
                LET elapsed == now - buckets[ip].lastRefill
                    added   == (elapsed * maxRequests) \div windowMs
                    filled  == IF buckets[ip].tokens + added > maxRequests
                               THEN maxRequests
                               ELSE buckets[ip].tokens + added
                    taken   == IF ret'.allowed THEN 1 ELSE 0
                IN  /\ buckets'[ip].tokens = filled - taken
                    /\ buckets'[ip].lastRefill =
                          IF added > 0 THEN now ELSE buckets[ip].lastRefill
                    /\ ~ret'.allowed => buckets'[ip] = buckets[ip]
         ]_limiterVars

\* a consume finds one token in a bucket left alone for a window or more: the
\* refill is capped at maxRequests and lastRefill is set to now
C31_Witness ==
    /\ IsConsume /\ ~ret.created /\ ret.allowed
    /\ ret.before = 1
    /\ ret.idle >= windowMs
    /\ ret.avail = maxRequests
    /\ buckets[ret.key].lastRefill = now

\* floor(T * maxRequests / windowMs)
Accrued(T) == (T * maxRequests) \div windowMs

\* C40: between any two allowed calls of the key, both included, the number
\* of allowed calls is at most maxRequests plus the tokens that accrue in the
\* time between them, whatever cleanups ran in between.
C40_AdmissionBound ==
    \A i, j \in 1..Len(admitted) :
        i <= j =>
            j - i + 1 <= maxRequests + Accrued(admitted[j] - admitted[i])

\* the key used its whole burst at one instant (the bound is met), a cleanup
\* removed its bucket, and a later call was allowed on a new bucket
C40_Witness ==
    /\ IsConsume /\ ret.created
    /\ Len(admitted) > maxRequests
    /\ admitted[maxRequests] = admitted[1]
    /\ admitted[Len(admitted)] = now
    /\ now - admitted[1] > 2 * windowMs

(***************************************************************************)
(* DataGenerator: producer, batcher and broadcast hub                      *)
(***************************************************************************)

\* options.batchSize, scaled down
batchSize == 2
\* the producer generates at most this many records
MaxGenerated == 3
\* rates accepted by setRate are 1 .. MaxRate
MaxRate == 2
\* socket handles are numbered in the order the server accepts them
MaxClients == 3

Clients == 1..MaxClients

\* readyState of a server-side socket; UNACCEPTED is a handle not yet created
UNACCEPTED == 0
OPEN == 1
CLOSING == 2
CLOSED == 3

VARIABLES
    rate,            \* this.rate
    isRunning,       \* this.isRunning
    interval,        \* this.interval is set
    timers,          \* the number of setInterval timers that are active
    buffer,          \* this.buffer, records named by their generation number
    totalGenerated,  \* this.totalGenerated
    wsClients,       \* this.wsClients
    readyState,      \* client.readyState of every socket handle
    inflight,        \* batches whose DataRecord.createBatch is outstanding
    flushLog,        \* history: every batch taken by processBuffer, in order
    persistFailed,   \* history: batches whose createBatch rejected
    broadcasted,     \* history: batches passed to broadcast
    pass,            \* the broadcast pass made by the last step, if it made one
    statsPending,    \* sockets whose DataRecord.getStats() of
                     \* sendStatsToClient is outstanding
    call             \* what the last step did when it was a connection
                     \* handler, a socket handler, the completion of
                     \* sendStatsToClient or a rate request

producerVars == <<rate, isRunning, interval, timers, buffer, totalGenerated, wsClients,
                  readyState, inflight, flushLog, persistFailed, broadcasted,
                  pass, statsPending, call>>

\* sent: the messages the step sent, as pairs of receiver and message type;
\* status: the HTTP status of the response of a rate request; sendFailed: a
\* send of the step threw
NoCall == [op |-> "none", client |-> 0, wasMember |-> FALSE, sent |-> {},
           status |-> 0, sendFailed |-> FALSE]

\* a step that is none of those
Quiet ==
    /\ call' = NoCall
    /\ UNCHANGED statsPending

NoPass == [done |-> FALSE, total |-> 0, data |-> <<>>, skipped |-> {},
           failed |-> {}, delivered |-> {}, sent |-> <<>>, raised |-> FALSE]

\* this.generateRecord(): the record is named by its generation number
generateRecord == totalGenerated + 1

\* if (this.buffer.length >= this.batchSize)
ShouldFlush_gt(buf) == Len(buf) > batchSize
ShouldFlush(buf) == Len(buf) >= batchSize

\* const records = [...this.buffer]
TakeBatch_tail(buf) == Tail(buf)
TakeBatch(buf) == buf

\* processBuffer up to its await: copy the buffer, empty it and call
\* DataRecord.createBatch(records); nothing happens on an empty buffer
processBuffer(buf, trigger) ==
    IF Len(buf) = 0
    THEN /\ buffer' = buf
         /\ UNCHANGED <<inflight, flushLog>>
    ELSE LET records == TakeBatch(buf)
         IN  /\ buffer' = <<>>
             /\ inflight' = inflight \cup {records}
             /\ flushLog' = Append(flushLog, [trigger |-> trigger, records |-> records])

\* if (this.isRunning) return
AlreadyRunning_never(running) == FALSE
AlreadyRunning(running) == running

start ==
    /\ IF AlreadyRunning(isRunning)
       THEN UNCHANGED <<isRunning, interval, timers>>
       ELSE /\ isRunning' = TRUE
            /\ interval' = TRUE
            /\ timers' = timers + 1
    /\ pass' = NoPass
    /\ Quiet
    /\ UNCHANGED <<rate, buffer, totalGenerated, wsClients, readyState,
                   inflight, flushLog, persistFailed, broadcasted>>

\* the setInterval callback of start()
Tick ==
    /\ timers > 0
    /\ totalGenerated < MaxGenerated
    /\ totalGenerated' = totalGenerated + 1
    /\ LET pushed == Append(buffer, generateRecord)
       IN  IF ShouldFlush(pushed)
           THEN processBuffer(pushed, "tick")
           ELSE /\ buffer' = pushed
                /\ UNCHANGED <<inflight, flushLog>>
    /\ pass' = NoPass
    /\ Quiet
    /\ UNCHANGED <<rate, isRunning, interval, timers, wsClients, readyState,
                   persistFailed, broadcasted>>

\* if (this.buffer.length > 0) in stop()
HasRemainder_never(buf) == FALSE
HasRemainder(buf) == Len(buf) > 0

\* stop() up to the await of its processBuffer call
StopNow ==
    IF ~isRunning
    THEN UNCHANGED <<buffer, inflight, flushLog>>
    ELSE IF HasRemainder(buffer)
         THEN processBuffer(buffer, "stop")
         ELSE UNCHANGED <<buffer, inflight, flushLog>>

stop ==
    /\ StopNow
    /\ isRunning' = FALSE
    /\ interval' = FALSE
    \* clearInterval(this.interval)
    /\ timers' = IF isRunning /\ interval THEN timers - 1 ELSE timers
    /\ pass' = NoPass
    /\ Quiet
    /\ UNCHANGED <<rate, totalGenerated, wsClients, readyState,
                   persistFailed, broadcasted>>

\* setRate: stop() (not awaited), this.rate = newRate, start() if it was running
setRateBody(newRate) ==
    /\ StopNow
    /\ rate' = newRate
    \* when it was running, stop() cleared the timer and start() set a new one
    /\ UNCHANGED <<isRunning, interval, timers>>
    /\ pass' = NoPass
    /\ UNCHANGED <<totalGenerated, wsClients, readyState, persistFailed,
                   broadcasted>>

\* setRate(newRate) called with a rate in range
setRate(newRate) ==
    /\ setRateBody(newRate)
    /\ Quiet

\* this.wsClients.delete(client) in the catch of broadcast
PruneFailed_none(clients, failed) == clients
PruneFailed(clients, failed) == clients \ failed

\* if (client.readyState === 1)
IsOpen(c) == readyState[c] = OPEN

\* the callback of wsClients.forEach for one member: a member that is not
\* open is skipped; send is called on an open member, and when it throws the
\* catch deletes the member and the callback returns normally
VisitClient_nocatch(acc, c, throws) ==
    IF ~IsOpen(c)
    THEN [acc EXCEPT !.skipped = @ \cup {c}]
    ELSE IF c \in throws
         THEN [acc EXCEPT !.raised = TRUE]
         ELSE [acc EXCEPT !.delivered = @ \cup {c}, !.sent = Append(@, c)]
VisitClient(acc, c, throws) ==
    IF ~IsOpen(c)
    THEN [acc EXCEPT !.skipped = @ \cup {c}]
    ELSE IF c \in throws
         THEN [acc EXCEPT !.failed = @ \cup {c}]
         ELSE [acc EXCEPT !.delivered = @ \cup {c}, !.sent = Append(@, c)]

\* wsClients.forEach visits the members in insertion order, which is the order
\* of their handles; an exception leaving the callback would end the loop
RECURSIVE ForEachClient(_, _, _)
ForEachClient(acc, todo, throws) ==
    IF todo = {} \/ acc.raised
    THEN acc
    ELSE LET c == CHOOSE x \in todo : \A y \in todo : x <= y
         IN  ForEachClient(VisitClient(acc, c, throws), todo \ {c}, throws)

\* broadcast(data): client.send may throw for any open member
broadcast(data) ==
    \E throws \in SUBSET {c \in wsClients : IsOpen(c)} :
       LET none == [done |-> TRUE, total |-> data.total, data |-> data.data,
                    skipped |-> {}, failed |-> {}, delivered |-> {},
                    sent |-> <<>>, raised |-> FALSE]
           end == ForEachClient(none, wsClients, throws)
       IN  /\ wsClients' = PruneFailed(wsClients, end.failed)
           /\ broadcasted' = broadcasted \cup {data.data}
           /\ pass' = end

\* await DataRecord.createBatch(records) resolves: the batch is broadcast
PersistOk(records) ==
    /\ records \in inflight
    /\ inflight' = inflight \ {records}
    /\ broadcast([type |-> "batch", data |-> records, total |-> totalGenerated])
    /\ Quiet
    /\ UNCHANGED <<rate, isRunning, interval, timers, buffer, totalGenerated, readyState,
                   flushLog, persistFailed>>

\* await DataRecord.createBatch(records) rejects: the catch only logs
PersistFail(records) ==
    /\ records \in inflight
    /\ inflight' = inflight \ {records}
    /\ persistFailed' = persistFailed \cup {records}
    /\ pass' = NoPass
    /\ Quiet
    /\ UNCHANGED <<rate, isRunning, interval, timers, buffer, totalGenerated, wsClients,
                   readyState, flushLog, broadcasted>>

\* wss.on('connection'): dataGenerator.addClient(ws), which adds the socket
\* and calls sendStatsToClient(ws) up to its await, then the welcome message
addClient(c) ==
    /\ readyState[c] = UNACCEPTED
    /\ \A d \in Clients : d < c => readyState[d] # UNACCEPTED
    /\ readyState' = [readyState EXCEPT ![c] = OPEN]
    /\ wsClients' = wsClients \cup {c}
    /\ statsPending' = statsPending \cup {c}
    /\ call' = [NoCall EXCEPT !.op = "connection", !.client = c,
                              !.wasMember = c \in wsClients,
                              !.sent = {[to |-> c, type |-> "connected"]}]
    /\ pass' = NoPass
    /\ UNCHANGED <<rate, isRunning, interval, timers, buffer, totalGenerated,
                   inflight, flushLog, persistFailed, broadcasted>>

\* the receivers of the stats snapshot requested for socket ws
StatsReceivers_all(ws) == wsClients \cup {ws}
StatsReceivers(ws) == {ws}

\* sendStatsToClient(ws) after its await: getStats resolved and ws.send is
\* called, or getStats rejected or ws.send threw and the catch logs
sendStatsToClient(ws) ==
    /\ ws \in statsPending
    /\ statsPending' = statsPending \ {ws}
    /\ \E delivered, threw \in BOOLEAN :
          /\ delivered => IsOpen(ws) /\ ~threw
          /\ call' = [NoCall EXCEPT
                         !.op = "stats", !.client = ws,
                         !.wasMember = ws \in wsClients,
                         !.sent = IF delivered
                                  THEN {[to |-> r, type |-> "stats"] :
                                            r \in StatsReceivers(ws)}
                                  ELSE {},
                         !.sendFailed = threw]
    /\ pass' = NoPass
    /\ UNCHANGED <<rate, isRunning, interval, timers, buffer, totalGenerated, wsClients,
                   readyState, inflight, flushLog, persistFailed, broadcasted>>

\* this.wsClients.delete(ws)
Delete_toggle(clients, ws) ==
    IF ws \in clients THEN clients \ {ws} ELSE clients \cup {ws}
Delete(clients, ws) == clients \ {ws}

\* removeClient(ws)
removeClient(c) == wsClients' = Delete(wsClients, c)

\* the closing handshake of a socket has started, its close event is pending
SocketClosing(c) ==
    /\ readyState[c] = OPEN
    /\ readyState' = [readyState EXCEPT ![c] = CLOSING]
    /\ pass' = NoPass
    /\ Quiet
    /\ UNCHANGED <<rate, isRunning, interval, timers, buffer, totalGenerated, wsClients,
                   inflight, flushLog, persistFailed, broadcasted>>

\* ws.on('close')
SocketClose(c) ==
    /\ readyState[c] \in {OPEN, CLOSING}
    /\ readyState' = [readyState EXCEPT ![c] = CLOSED]
    /\ removeClient(c)
    /\ call' = [NoCall EXCEPT !.op = "close", !.client = c,
                              !.wasMember = c \in wsClients]
    /\ UNCHANGED statsPending
    /\ pass' = NoPass
    /\ UNCHANGED <<rate, isRunning, interval, timers, buffer, totalGenerated,
                   inflight, flushLog, persistFailed, broadcasted>>

\* ws.on('error'); the close event follows
SocketError(c) ==
    /\ readyState[c] \in {OPEN, CLOSING}
    /\ c \in wsClients
    /\ removeClient(c)
    /\ call' = [NoCall EXCEPT !.op = "error", !.client = c,
                              !.wasMember = c \in wsClients]
    /\ UNCHANGED statsPending
    /\ pass' = NoPass
    /\ UNCHANGED <<rate, isRunning, interval, timers, buffer, totalGenerated, readyState,
                   inflight, flushLog, persistFailed, broadcasted>>

ProducerInit ==
    /\ rate = 1
    /\ isRunning = FALSE
    /\ interval = FALSE
    /\ timers = 0
    /\ buffer = <<>>
    /\ totalGenerated = 0
    /\ wsClients = {}
    /\ readyState = [c \in Clients |-> UNACCEPTED]
    /\ inflight = {}
    /\ flushLog = <<>>
    /\ persistFailed = {}
    /\ broadcasted = {}
    /\ pass = NoPass
    /\ statsPending = {}
    /\ call = NoCall

ProducerNext ==
    \/ start
    \/ Tick
    \/ stop
    \/ \E newRate \in 1..MaxRate : setRate(newRate)
    \/ \E records \in inflight : PersistOk(records)
    \/ \E records \in inflight : PersistFail(records)
    \/ \E c \in Clients : addClient(c)
    \/ \E c \in Clients : SocketClosing(c)
    \/ \E c \in Clients : SocketClose(c)
    \/ \E c \in Clients : SocketError(c)

\* req.body.rate of a rate request: absent, null, a number, or a string that
\* is not numeric
Rates ==
    {[t |-> "undefined", v |-> 0], [t |-> "null", v |-> 0], [t |-> "string", v |-> 0]}
        \cup {[t |-> "number", v |-> n] : n \in -1..(MaxRate + 1)}

\* this.rate is kept as the number it stands for; NotANumber stands for a
\* value that is not numeric (1000 / this.rate is then NaN)
NotANumber == -1000

\* !rate
Falsy(x) == x.t \in {"undefined", "null"} \/ (x.t = "number" /\ x.v = 0)

\* the number the relational operators compare: null is 0, undefined and a
\* string that is not numeric are NaN
IsNaN(x) == x.t \in {"undefined", "string"}
ToNumber(x) == IF x.t = "number" THEN x.v ELSE 0

\* rate < 1 and rate > 1000 (scaled to MaxRate): false when rate is NaN
LessThan(x, n) == ~IsNaN(x) /\ ToNumber(x) < n
GreaterThan(x, n) == ~IsNaN(x) /\ ToNumber(x) > n

\* if (!rate || rate < 1 || rate > 1000)
Rejects(x) == Falsy(x) \/ LessThan(x, 1) \/ GreaterThan(x, MaxRate)

\* app.post('/api/generator/rate')
PostRate(x) ==
    IF Rejects(x)
    THEN /\ call' = [NoCall EXCEPT !.op = "rate", !.status = 400]
         /\ pass' = NoPass
         /\ UNCHANGED <<rate, isRunning, interval, timers, buffer, totalGenerated,
                        wsClients, readyState, inflight, flushLog,
                        persistFailed, broadcasted, statsPending>>
    ELSE /\ setRateBody(IF IsNaN(x) THEN NotANumber ELSE ToNumber(x))
         /\ call' = [NoCall EXCEPT !.op = "rate", !.status = 200]
         /\ UNCHANGED statsPending

\* the producer driven through its routes
RoutesNext ==
    \/ start
    \/ Tick
    \/ stop
    \/ \E x \in Rates : PostRate(x)
    \/ \E records \in inflight : PersistOk(records)
    \/ \E records \in inflight : PersistFail(records)

\* the hub: registrations, the snapshots they request, socket events, and
\* the batches broadcast meanwhile
HubNext ==
    \/ \E c \in Clients : addClient(c)
    \/ \E c \in Clients : sendStatsToClient(c)
    \/ \E c \in Clients : SocketClosing(c)
    \/ \E c \in Clients : SocketClose(c)
    \/ \E c \in Clients : SocketError(c)
    \/ start
    \/ Tick
    \/ \E records \in inflight : PersistOk(records)
    \/ \E records \in inflight : PersistFail(records)

(***************************************************************************)
(* useWebSocket: the stream client                                         *)
(***************************************************************************)

\* MAX_RECONNECT_ATTEMPTS, scaled down
MAX_RECONNECT_ATTEMPTS == 2
\* the client creates at most this many WebSocket objects, numbered in order
MaxSockets == 4
\* the runs with outbound and inbound traffic create at most this many
MaxIOSockets == 3
\* sendMessage is called at most this many times
MaxSends == 2
\* at most this many frames arrive from the server
MaxInbound == 2

Sockets == 1..MaxSockets

\* wsRef.current, reconnectTimeoutRef.current, heartbeatIntervalRef.current
\* when they hold null
NULL == 0

VARIABLES
    connectionStatus,      \* connectionStatus state
    isConnected,           \* isConnected state
    wsRef,                 \* wsRef.current: a socket or NULL
    socket,                \* every WebSocket object: "none" (not created),
                           \* "connecting", "open", "closing", "failing"
                           \* (error fired, close event pending), "closed"
    reconnectAttempts,     \* reconnectAttemptsRef.current
    reconnectTimeoutRef,   \* reconnectTimeoutRef.current: a timer or NULL
    reconnectTimers,       \* pending setTimeout(connect), named by the socket
                           \* whose onclose set them
    heartbeatIntervalRef,  \* heartbeatIntervalRef.current: an interval or NULL
    heartbeats,            \* running setInterval(ping), named by the socket
                           \* whose onopen set them
    closesSinceOpen,       \* history: close events since the last open event
    manual,                \* history: disconnect() was called and connect()
                           \* has not been called since
    messageBuffer,         \* messageBufferRef.current
    transmitted,           \* history: every string given to send() of an open
                           \* socket by sendMessage or by the flush of onopen
    sendLog,               \* history: every message passed to sendMessage
    arrivals,              \* history: the number of message events delivered
    forwarded,             \* history: every value passed to onMessage
    parseFailedAt,         \* history: the arrival number of the last frame
                           \* JSON.parse threw on, 0 when there was none
    pinged                 \* history: the sockets a heartbeat ping was sent on

clientVars == <<connectionStatus, isConnected, wsRef, socket, reconnectAttempts,
                reconnectTimeoutRef, reconnectTimers, heartbeatIntervalRef,
                heartbeats, closesSinceOpen, manual, messageBuffer, transmitted,
                sendLog, arrivals, forwarded, parseFailedAt, pinged>>

ioVars == <<messageBuffer, transmitted, sendLog, arrivals, forwarded,
            parseFailedAt, pinged>>

Live(i) == socket[i] \in {"connecting", "open", "closing", "failing"}

\* connect(): returns at once when wsRef.current is an open socket, else sets
\* 'connecting' and stores a new WebSocket in wsRef
connectBody ==
    IF wsRef # NULL /\ socket[wsRef] = "open"
    THEN UNCHANGED <<connectionStatus, wsRef, socket>>
    ELSE \E i \in Sockets :
            /\ socket[i] = "none"
            /\ \A j \in Sockets : j < i => socket[j] # "none"
            /\ connectionStatus' = "connecting"
            /\ socket' = [socket EXCEPT ![i] = "connecting"]
            /\ wsRef' = i

\* connect() called from outside: the mount effect or the exported reconnect
connect ==
    /\ connectBody
    /\ manual' = FALSE
    /\ UNCHANGED <<isConnected, reconnectAttempts, reconnectTimeoutRef,
                   reconnectTimers, heartbeatIntervalRef, heartbeats,
                   closesSinceOpen>>
    /\ UNCHANGED ioVars

\* the setTimeout callback set by onclose: connect()
ReconnectTimerFires(t) ==
    /\ t \in reconnectTimers
    /\ reconnectTimers' = reconnectTimers \ {t}
    /\ connectBody
    /\ UNCHANGED <<isConnected, reconnectAttempts, reconnectTimeoutRef,
                   heartbeatIntervalRef, heartbeats, closesSinceOpen, manual>>
    /\ UNCHANGED ioVars

\* ws.onopen
onopen(i) ==
    /\ socket[i] = "connecting"
    /\ socket' = [socket EXCEPT ![i] = "open"]
    /\ isConnected' = TRUE
    /\ connectionStatus' = "connected"
    /\ reconnectAttempts' = 0
    \* messageBufferRef.current.forEach(msg => ws.send(msg)), then it is emptied
    /\ transmitted' = transmitted \o messageBuffer
    /\ messageBuffer' = <<>>
    /\ heartbeats' = heartbeats \cup {i}
    /\ heartbeatIntervalRef' = i
    /\ closesSinceOpen' = 0
    /\ UNCHANGED <<wsRef, reconnectTimeoutRef, reconnectTimers, manual,
                   sendLog, arrivals, forwarded, parseFailedAt, pinged>>

\* ws.onerror; the browser fires the close event of the socket next
onerror(i) ==
    /\ socket[i] \in {"connecting", "open", "closing"}
    /\ socket' = [socket EXCEPT ![i] = "failing"]
    /\ connectionStatus' = "error"
    /\ UNCHANGED <<isConnected, wsRef, reconnectAttempts, reconnectTimeoutRef,
                   reconnectTimers, heartbeatIntervalRef, heartbeats,
                   closesSinceOpen, manual>>
    /\ UNCHANGED ioVars

\* if (reconnectAttemptsRef.current < MAX_RECONNECT_ATTEMPTS)
CanReconnect_le(attempts) == attempts <= MAX_RECONNECT_ATTEMPTS
CanReconnect(attempts) == attempts < MAX_RECONNECT_ATTEMPTS

\* ws.onclose
onclose(i) ==
    /\ Live(i)
    /\ socket' = [socket EXCEPT ![i] = "closed"]
    /\ isConnected' = FALSE
    /\ heartbeats' = heartbeats \ {heartbeatIntervalRef}
    /\ heartbeatIntervalRef' = NULL
    /\ closesSinceOpen' = Min(closesSinceOpen + 1, MAX_RECONNECT_ATTEMPTS + 2)
    /\ IF CanReconnect(reconnectAttempts)
       THEN /\ reconnectAttempts' = reconnectAttempts + 1
            /\ connectionStatus' = "reconnecting"
            /\ reconnectTimers' = reconnectTimers \cup {i}
            /\ reconnectTimeoutRef' = i
       ELSE /\ connectionStatus' = "failed"
            /\ UNCHANGED <<reconnectAttempts, reconnectTimers, reconnectTimeoutRef>>
    /\ UNCHANGED <<wsRef, manual>>
    /\ UNCHANGED ioVars

\* wsRef.current.close()
CloseSocket(i) ==
    [socket EXCEPT ![i] = IF @ \in {"connecting", "open"} THEN "closing" ELSE @]

disconnect ==
    /\ reconnectTimers' = reconnectTimers \ {reconnectTimeoutRef}
    /\ reconnectTimeoutRef' = NULL
    /\ heartbeats' = heartbeats \ {heartbeatIntervalRef}
    /\ heartbeatIntervalRef' = NULL
    /\ socket' = IF wsRef # NULL THEN CloseSocket(wsRef) ELSE socket
    /\ wsRef' = NULL
    /\ isConnected' = FALSE
    /\ connectionStatus' = "disconnected"
    /\ manual' = TRUE
    /\ UNCHANGED <<reconnectAttempts, closesSinceOpen>>
    /\ UNCHANGED ioVars

lifecycleVars == <<connectionStatus, isConnected, wsRef, socket, reconnectAttempts,
                   reconnectTimeoutRef, reconnectTimers, heartbeatIntervalRef,
                   heartbeats, closesSinceOpen, manual>>

\* the arguments of sendMessage: the k-th call passes a string or an object
Messages == {[id |-> k, isString |-> b] : k \in 1..MaxSends, b \in BOOLEAN}

\* typeof message === 'string' ? message : JSON.stringify(message)
msgString(message) == [id |-> message.id, json |-> ~message.isString]

\* sendMessage(message)
sendMessage(message) ==
    /\ Len(sendLog) < MaxSends
    /\ message.id = Len(sendLog) + 1
    /\ sendLog' = Append(sendLog, message)
    /\ IF wsRef # NULL /\ socket[wsRef] = "open"
       THEN /\ transmitted' = Append(transmitted, msgString(message))
            /\ UNCHANGED messageBuffer
       ELSE /\ messageBuffer' = Append(messageBuffer, msgString(message))
            /\ UNCHANGED transmitted
    /\ UNCHANGED <<lifecycleVars, arrivals, forwarded, parseFailedAt, pinged>>

\* event.data of a message event: the JSON text of a 'pong', of a 'batch', of
\* an object without a type, the JSON text null, and a text that is not JSON
Frames == {"pong", "batch", "untyped", "null", "malformed"}

\* JSON.parse(event.data) throws on a text that is not JSON
ParseThrows(frame) == frame = "malformed"

\* the value JSON.parse(event.data) returns
JSONparse(frame) ==
    CASE frame = "pong"    -> [isNull |-> FALSE, type |-> "pong"]
      [] frame = "batch"   -> [isNull |-> FALSE, type |-> "batch"]
      [] frame = "untyped" -> [isNull |-> FALSE, type |-> "undefined"]
      [] frame = "null"    -> [isNull |-> TRUE, type |-> "undefined"]

\* reading data.type throws a TypeError when data is null
TypeThrows(data) == data.isNull

\* if (data.type !== 'pong')
ShouldForward_all(data) == TRUE
ShouldForward(data) == data.type # "pong"

\* the catch of ws.onmessage logs and changes nothing
AfterCatch_error(status) == "error"
AfterCatch(status) == status

\* ws.onmessage: every socket the client made has this handler, and a socket
\* delivers message events until it is closed; the catch only logs
onmessage(i, frame) ==
    /\ socket[i] \in {"open", "closing"}
    /\ arrivals < MaxInbound
    /\ arrivals' = arrivals + 1
    /\ forwarded' =
          IF ParseThrows(frame) THEN forwarded
          ELSE LET data == JSONparse(frame)
               IN  IF TypeThrows(data) THEN forwarded
                   ELSE IF ShouldForward(data)
                        THEN Append(forwarded, data)
                        ELSE forwarded
    /\ parseFailedAt' = IF ParseThrows(frame) THEN arrivals + 1 ELSE parseFailedAt
    /\ connectionStatus' =
          IF ParseThrows(frame) \/ TypeThrows(JSONparse(frame))
          THEN AfterCatch(connectionStatus)
          ELSE connectionStatus
    /\ UNCHANGED <<isConnected, wsRef, socket, reconnectAttempts,
                   reconnectTimeoutRef, reconnectTimers, heartbeatIntervalRef,
                   heartbeats, closesSinceOpen, manual>>
    /\ UNCHANGED <<messageBuffer, transmitted, sendLog, pinged>>

\* if (ws.readyState === WebSocket.OPEN) in the heartbeat callback
PingAllowed_always(state) == TRUE
PingAllowed(state) == state = "open"

\* the setInterval callback set by the onopen of socket h
HeartbeatFires(h) ==
    /\ h \in heartbeats
    /\ pinged' = IF PingAllowed(socket[h]) THEN pinged \cup {h} ELSE pinged
    /\ UNCHANGED <<lifecycleVars, messageBuffer, transmitted, sendLog, arrivals,
                   forwarded, parseFailedAt>>

ClientInit ==
    /\ connectionStatus = "disconnected"
    /\ isConnected = FALSE
    /\ wsRef = NULL
    /\ socket = [i \in Sockets |-> "none"]
    /\ reconnectAttempts = 0
    /\ reconnectTimeoutRef = NULL
    /\ reconnectTimers = {}
    /\ heartbeatIntervalRef = NULL
    /\ heartbeats = {}
    /\ closesSinceOpen = 0
    /\ manual = FALSE
    /\ messageBuffer = <<>>
    /\ transmitted = <<>>
    /\ sendLog = <<>>
    /\ arrivals = 0
    /\ forwarded = <<>>
    /\ parseFailedAt = 0
    /\ pinged = {}

ClientNext ==
    \/ connect
    \/ disconnect
    \/ \E t \in Sockets : ReconnectTimerFires(t)
    \/ \E i \in Sockets : onopen(i)
    \/ \E i \in Sockets : onerror(i)
    \/ \E i \in Sockets : onclose(i)

\* the client with its inbound traffic
ClientInNext ==
    /\ \/ ClientNext
       \/ \E i \in Sockets : \E frame \in Frames : onmessage(i, frame)
    /\ \A i \in Sockets : i > MaxIOSockets => socket'[i] = "none"

\* the client with its outbound traffic and its heartbeats
ClientOutNext ==
    /\ \/ ClientNext
       \/ \E message \in Messages : sendMessage(message)
       \/ \E h \in Sockets : HeartbeatFires(h)
    /\ \A i \in Sockets : i > MaxIOSockets => socket'[i] = "none"

(***************************************************************************)
(* useDataBuffer: the client buffer                                        *)
(***************************************************************************)

\* MAX_BUFFER_SIZE and BATCH_UPDATE_INTERVAL, scaled down
MAX_BUFFER_SIZE == 2
BATCH_UPDATE_INTERVAL == 2
\* at most this many records are ingested, at most MaxPerCall in one call
MaxIngested == 4
MaxPerCall == 2
\* last instant of the buffer's clock
MaxBufTime == 5

VARIABLES
    bnow,             \* the client's clock
    records,          \* state.records, records named by their arrival number
    total,            \* state.total
    pendingBatchRef,  \* pendingBatchRef.current
    commitDue,        \* time at which the timeout held by batchTimeoutRef
                      \* fires, -1 when none is pending
    ingested,         \* history: number of records passed to addRecords
    oldestPendingAt,  \* history: when the oldest pending record was ingested,
                      \* -1 when nothing is pending
    clearedAt,        \* history: the value of ingested at the last clearData
    filter,           \* state.filter: "null", "undefined" or a category
    category,         \* record.category of each record that has arrived
    metricsDue,       \* when the setInterval of the metrics effect fires next
    metricsRef        \* metricsRef.current

bufferVars == <<bnow, records, total, pendingBatchRef, commitDue, ingested,
                oldestPendingAt, clearedAt, filter, category, metricsDue,
                metricsRef>>

\* the 1000 ms period of the metrics setInterval, scaled down with
\* BATCH_UPDATE_INTERVAL
MetricsInterval == 3
\* the divisor 1000 of timeDiff (milliseconds in a second), the same length
MetricsMsPerSecond == MetricsInterval

\* Math.round(recordDiff / timeDiff), timeDiff = elapsed / 1000 and elapsed > 0
RecordsPerSecond(recordDiff, elapsed) ==
    (2 * recordDiff * MetricsMsPerSecond + elapsed) \div (2 * elapsed)

\* the metrics effect has [state.total] as dependencies: when a render sees
\* another total, its cleanup clears the interval and the effect sets a new one
MetricsEffect(oldTotal, newTotal) ==
    metricsDue' = IF newTotal # oldTotal THEN bnow + MetricsInterval ELSE metricsDue

\* the setInterval callback of the metrics effect
MetricsTimerFires ==
    /\ metricsDue = bnow
    /\ metricsDue' = bnow + MetricsInterval
    /\ metricsRef' =
          [recordsPerSecond |->
               RecordsPerSecond(total - metricsRef.lastRecordCount,
                                bnow - metricsRef.lastMeasureTime),
           lastRecordCount |-> total,
           lastMeasureTime |-> bnow]
    /\ UNCHANGED <<bnow, records, total, pendingBatchRef, commitDue, ingested,
                   oldestPendingAt, clearedAt, filter, category>>

\* this.categories, two of the five; generateRecord draws one per record
Categories == {"sensor", "metric"}
CategoryOf(r) == category[r]

\* state.filter ? ... : ...
Truthy(f) == f \notin {"null", "undefined"}

\* record => record.category === state.filter
Matches_any(r, f) == TRUE
Matches(r, f) == CategoryOf(r) = f

\* const filteredRecords, computed on every render
filteredRecords ==
    IF Truthy(filter)
    THEN SelectSeq(records, LAMBDA r : Matches(r, filter))
    ELSE records

\* combined.slice(-MAX_BUFFER_SIZE) when combined.length > MAX_BUFFER_SIZE
KeepRecent_head(combined) ==
    IF Len(combined) > MAX_BUFFER_SIZE
    THEN SubSeq(combined, 1, MAX_BUFFER_SIZE)
    ELSE combined
KeepRecent(combined) ==
    IF Len(combined) > MAX_BUFFER_SIZE
    THEN SubSeq(combined, Len(combined) - MAX_BUFFER_SIZE + 1, Len(combined))
    ELSE combined

\* total: state.total + newRecords.length
NewTotal_capped(oldTotal, newRecords) ==
    Min(oldTotal + Len(newRecords), MAX_BUFFER_SIZE)
NewTotal(oldTotal, newRecords) == oldTotal + Len(newRecords)

\* dataBufferReducer, case 'ADD_BATCH'
ADD_BATCH(newRecords) ==
    /\ records' = KeepRecent(records \o newRecords)
    /\ total' = NewTotal(total, newRecords)

\* dataBufferReducer, case 'CLEAR': the state it returns has no filter field
CLEAR ==
    /\ records' = <<>>
    /\ total' = 0
    /\ filter' = "undefined"

\* dataBufferReducer, case 'SET_FILTER'
SET_FILTER(f) ==
    /\ filter' = f
    /\ UNCHANGED <<records, total>>

\* setFilter(filter)
setFilter(f) ==
    /\ SET_FILTER(f)
    /\ MetricsEffect(total, total')
    /\ UNCHANGED <<bnow, pendingBatchRef, commitDue, ingested, oldestPendingAt,
                   clearedAt, category, metricsRef>>

\* addRecords(records): push to the pending list, clear the timeout that is
\* pending, set a new one; the records come with the category the server drew
addRecords(n) ==
    /\ ingested + n <= MaxIngested
    /\ \E cs \in [1..n -> Categories] :
          category' = [r \in 1..MaxIngested |->
                          IF r \in (ingested + 1)..(ingested + n)
                          THEN cs[r - ingested]
                          ELSE category[r]]
    /\ pendingBatchRef' = pendingBatchRef \o [i \in 1..n |-> ingested + i]
    /\ ingested' = ingested + n
    /\ commitDue' = bnow + BATCH_UPDATE_INTERVAL
    /\ oldestPendingAt' = IF pendingBatchRef = <<>> THEN bnow ELSE oldestPendingAt
    /\ UNCHANGED <<bnow, records, total, clearedAt, filter, metricsDue,
                   metricsRef>>

\* the setTimeout callback of addRecords
CommitTimerFires ==
    /\ commitDue = bnow
    /\ commitDue' = -1
    /\ IF Len(pendingBatchRef) > 0
       THEN /\ ADD_BATCH(pendingBatchRef)
            /\ pendingBatchRef' = <<>>
       ELSE UNCHANGED <<records, total, pendingBatchRef>>
    /\ oldestPendingAt' = -1
    /\ MetricsEffect(total, total')
    /\ UNCHANGED <<bnow, ingested, clearedAt, filter, category, metricsRef>>

\* clearTimeout(batchTimeoutRef.current): the timeout will not fire
ClearTimeout_keep(due) == due
ClearTimeout(due) == -1

\* clearData()
clearData ==
    /\ pendingBatchRef' = <<>>
    /\ commitDue' = ClearTimeout(commitDue)
    /\ CLEAR
    /\ oldestPendingAt' = -1
    /\ clearedAt' = ingested
    /\ MetricsEffect(total, total')
    /\ UNCHANGED <<bnow, ingested, category, metricsRef>>

\* time passes; a timeout fires when it is due
BufferClock ==
    /\ bnow < MaxBufTime
    /\ commitDue # bnow
    /\ metricsDue # bnow
    /\ bnow' = bnow + 1
    /\ UNCHANGED <<records, total, pendingBatchRef, commitDue, ingested,
                   oldestPendingAt, clearedAt, filter, category, metricsDue,
                   metricsRef>>

BufferInit ==
    /\ bnow = 0
    /\ records = <<>>
    /\ total = 0
    /\ pendingBatchRef = <<>>
    /\ commitDue = -1
    /\ ingested = 0
    /\ oldestPendingAt = -1
    /\ clearedAt = 0
    /\ filter = "null"
    /\ category = [r \in 1..MaxIngested |-> "none"]
    /\ metricsDue = MetricsInterval
    /\ metricsRef = [recordsPerSecond |-> 0, lastRecordCount |-> 0,
                     lastMeasureTime |-> 0]

BufferNext ==
    \/ \E n \in 1..MaxPerCall : addRecords(n)
    \/ CommitTimerFires
    \/ clearData
    \/ \E f \in Categories \cup {"null"} : setFilter(f)
    \/ MetricsTimerFires
    \/ BufferClock

(***************************************************************************)
(* Specifications: one per component, the other components stand still     *)
(***************************************************************************)

vars == <<limiterVars, middlewareVars, producerVars, clientVars, bufferVars>>

Init ==
    LimiterInit /\ MiddlewareInit /\ ProducerInit /\ ClientInit /\ BufferInit

SpecMiddleware ==
    Init /\ [][MiddlewareNext /\ UNCHANGED <<producerVars, clientVars, bufferVars>>]_vars

SpecLimiter ==
    Init /\ [][LimiterNext /\ UNCHANGED <<middlewareVars, producerVars, clientVars, bufferVars>>]_vars

SpecProducer ==
    Init /\ [][ProducerNext /\ UNCHANGED <<limiterVars, middlewareVars, clientVars, bufferVars>>]_vars

SpecHub ==
    Init /\ [][HubNext /\ UNCHANGED <<limiterVars, middlewareVars, clientVars, bufferVars>>]_vars

SpecRoutes ==
    Init /\ [][RoutesNext /\ UNCHANGED <<limiterVars, middlewareVars, clientVars, bufferVars>>]_vars

SpecClient ==
    Init /\ [][ClientNext /\ UNCHANGED <<limiterVars, middlewareVars, producerVars, bufferVars>>]_vars

SpecClientIn ==
    Init /\ [][ClientInNext /\ UNCHANGED <<limiterVars, middlewareVars, producerVars, bufferVars>>]_vars

SpecClientOut ==
    Init /\ [][ClientOutNext /\ UNCHANGED <<limiterVars, middlewareVars, producerVars, bufferVars>>]_vars

SpecBuffer ==
    Init /\ [][BufferNext /\ UNCHANGED <<limiterVars, middlewareVars, producerVars, clientVars>>]_vars

(***************************************************************************)
(* DataGenerator properties                                                *)
(***************************************************************************)

\* C2: a batch whose persistence write failed has still been broadcast, and
\* generation goes on: a running producer keeps its tick timer.
C2_FailedWriteStillBroadcast ==
    /\ persistFailed \subseteq broadcasted
    /\ isRunning => interval

\* C3 (as stated): after a broadcast pass the live set contains no member that
\* was not open during the pass and no member whose send failed in it.
C3_NoDeadMemberAfterBroadcast ==
    pass.done => wsClients \cap (pass.skipped \cup pass.failed) = {}

\* C3 (amended): after a broadcast pass the live set contains no member whose
\* send failed in it; a member that was not open is skipped and stays in the
\* live set, as does every member the message was delivered to.
C3_BroadcastPrunesFailedSends ==
    pass.done =>
        /\ wsClients \cap pass.failed = {}
        /\ wsClients = pass.skipped \cup pass.delivered
        /\ \A c \in pass.skipped : readyState[c] # OPEN
        /\ \A c \in pass.delivered \cup pass.failed : readyState[c] = OPEN

\* a pass over one member that is not open, one whose send throws and one
\* that gets the message
C3_Witness ==
    /\ pass.done
    /\ Cardinality(pass.skipped) = 1
    /\ Cardinality(pass.failed) = 1
    /\ Cardinality(pass.delivered) = 1

\* the number of times the message was sent to member c in the last pass
SentCount(c) == Cardinality({i \in 1..Len(pass.sent) : pass.sent[i] = c})

\* C13: a broadcast pass sends the message exactly once to every member that
\* is open and whose send does not throw, and to nobody else, whatever other
\* members are closed or throw; the pass returns normally.
C13_BroadcastDelivery ==
    pass.done =>
        /\ ~pass.raised
        /\ \A c \in Clients :
              LET member == c \in wsClients \cup pass.failed
              IN  SentCount(c) =
                     IF member /\ readyState[c] = OPEN /\ c \notin pass.failed
                     THEN 1 ELSE 0

\* the send of one member threw; of the members visited after it one was not
\* open and one got the message
C13_Witness ==
    /\ pass.done
    /\ \E f \in pass.failed : \E k \in pass.skipped : \E d \in pass.delivered :
          /\ f < k
          /\ f < d
    /\ Len(pass.sent) >= 1

\* C16: the total carried by a batch message is the number of records
\* generated up to and including the last record of that batch.
C16_TotalAtFlush ==
    pass.done => pass.total = pass.data[Len(pass.data)]

\* C17 (as stated): setRate on a running producer leaves it running at
\* newRate with totalGenerated and the pending records unchanged; on a stopped
\* producer it only changes the rate.
C17_SetRateKeepsPending ==
    [][\A newRate \in 1..MaxRate :
          setRate(newRate) =>
             /\ rate' = newRate
             /\ isRunning' = isRunning
             /\ interval' = isRunning
             /\ totalGenerated' = totalGenerated
             /\ buffer' = buffer
             /\ ~isRunning => /\ inflight' = inflight
                              /\ flushLog' = flushLog
      ]_producerVars

\* C17 (amended): setRate on a running producer leaves it running at newRate
\* with totalGenerated unchanged; its stop() flushes the pending records when
\* there are any, so afterwards the pending batch is empty and its former
\* contents are one batch awaiting persistence; on a stopped producer it only
\* changes the rate.
C17_SetRateFlushesPending ==
    [][\A newRate \in 1..MaxRate :
          setRate(newRate) =>
             /\ rate' = newRate
             /\ isRunning' = isRunning
             /\ interval' = isRunning
             /\ totalGenerated' = totalGenerated
             /\ wsClients' = wsClients
             /\ IF isRunning /\ Len(buffer) > 0
                THEN /\ buffer' = <<>>
                     /\ inflight' = inflight \cup {buffer}
                     /\ flushLog' = Append(flushLog, [trigger |-> "stop",
                                                      records |-> buffer])
                ELSE /\ buffer' = buffer
                     /\ inflight' = inflight
                     /\ flushLog' = flushLog
      ]_producerVars

\* a running producer whose rate was changed while one record was pending:
\* it still runs, at the new rate, and the record went out as a short batch
C17_Witness ==
    /\ isRunning
    /\ interval
    /\ rate # 1
    /\ buffer = <<>>
    /\ \E i \in 1..Len(flushLog) :
          /\ flushLog[i].trigger = "stop"
          /\ flushLog[i].records \in inflight

IsStopCall == stop \/ \E newRate \in 1..MaxRate : setRate(newRate)

\* C6: after every tick the pending length is below batchSize; a tick flushes
\* exactly when the pending length reaches batchSize, and then exactly the
\* batchSize pending records; stop() on a running producer flushes exactly
\* once, exactly the remainder, when the remainder is not empty and does not
\* flush when it is empty.
C6_FlushRule ==
    /\ [](/\ Len(buffer) < batchSize
          /\ \A i \in 1..Len(flushLog) :
                LET n == Len(flushLog[i].records)
                IN  IF flushLog[i].trigger = "tick"
                    THEN n = batchSize
                    ELSE 0 < n /\ n < batchSize)
    /\ [][/\ Tick =>
               LET pushed == Append(buffer, totalGenerated + 1)
               IN  IF Len(pushed) = batchSize
                   THEN /\ flushLog' = Append(flushLog, [trigger |-> "tick",
                                                        records |-> pushed])
                        /\ inflight' = inflight \cup {pushed}
                        /\ buffer' = <<>>
                   ELSE /\ flushLog' = flushLog
                        /\ inflight' = inflight
                        /\ buffer' = pushed
          /\ (isRunning /\ IsStopCall) =>
               IF Len(buffer) > 0
               THEN /\ flushLog' = Append(flushLog, [trigger |-> "stop",
                                                    records |-> buffer])
                    /\ inflight' = inflight \cup {buffer}
                    /\ buffer' = <<>>
               ELSE /\ flushLog' = flushLog
                    /\ inflight' = inflight
                    /\ buffer' = <<>>
         ]_producerVars

\* a full batch flushed by a tick and a shorter remainder flushed by stop()
C6_Witness ==
    /\ ~isRunning
    /\ \E i, j \in 1..Len(flushLog) :
          /\ flushLog[i].trigger = "tick"
          /\ flushLog[j].trigger = "stop"
          /\ Len(flushLog[j].records) < batchSize

\* a rate between 1 and the maximum
IsValidRate(x) == x.t = "number" /\ x.v \in 1..MaxRate

\* C21: a rate request whose rate is missing or is not a rate between 1 and
\* the maximum is answered with an error status and leaves the rate, the
\* running state, the timer, the pending batch and totalGenerated unchanged.
C21_InvalidRateRejected ==
    [][\A x \in Rates :
          (PostRate(x) /\ ~IsValidRate(x)) =>
             /\ call'.status >= 400
             /\ UNCHANGED <<rate, isRunning, interval, buffer, totalGenerated>>
      ]_producerVars

\* C22: the connection handler adds the socket to the live set and requests
\* its snapshot; the messages sent by the handler and by the completion of
\* the snapshot go to that socket only, and neither step broadcasts.
C22_StatsToNewSubscriberOnly ==
    /\ call.op = "connection" =>
          /\ call.client \in wsClients
          /\ call.client \in statsPending
    /\ call.op \in {"connection", "stats"} =>
          /\ \A m \in call.sent : m.to = call.client
          /\ ~pass.done

\* the snapshot was sent to a socket while another open socket was in the
\* live set
C22_Witness ==
    /\ call.op = "stats"
    /\ call.sent # {}
    /\ \E c \in wsClients \ {call.client} : IsOpen(c)

\* C26: removing a socket leaves the live set without it, and equal to what
\* it was when the socket was not in it; removing it once more changes
\* nothing.
C26_UnregisterIdempotent ==
    /\ [](\A c \in Clients :
             LET once == Delete(wsClients, c)
             IN  /\ c \notin once
                 /\ Delete(once, c) = once)
    /\ [][\A c \in Clients :
             (SocketClose(c) \/ SocketError(c)) =>
                /\ c \notin wsClients'
                /\ wsClients' \cup {c} = wsClients \cup {c}
                /\ c \notin wsClients => wsClients' = wsClients
         ]_producerVars

\* the close handler removed a socket that was no longer in the live set
C26_Witness ==
    /\ call.op = "close"
    /\ ~call.wasMember
    /\ wsClients # {}

\* C27: a batch whose write is outstanding has been broadcast already, and
\* the tick timer of a running producer is set.
C27_BroadcastNotDelayed ==
    /\ inflight \subseteq broadcasted
    /\ isRunning => interval

\* the places where record r is: positions in flushed batches and in the
\* pending buffer
PlacesOf(r) ==
    LET inFlushed == {p \in (1..Len(flushLog)) \X (1..MaxGenerated) :
                         /\ p[2] <= Len(flushLog[p[1]].records)
                         /\ flushLog[p[1]].records[p[2]] = r}
        inPending == {<<0, k>> : k \in {n \in 1..Len(buffer) : buffer[n] = r}}
    IN  inFlushed \cup inPending

RECURSIVE FlushedCount(_)
FlushedCount(log) ==
    IF log = <<>> THEN 0 ELSE Len(Head(log).records) + FlushedCount(Tail(log))

\* C32: a tick raises totalGenerated by one and adds exactly the new record,
\* at the end of the pending records or as the last record of the batch it
\* flushes; totalGenerated never decreases; totalGenerated is the number of
\* flushed records plus the pending length, and every record generated so
\* far is in exactly one place, a flushed batch or the pending buffer.
C32_GenerationAccounting ==
    /\ [](/\ totalGenerated = FlushedCount(flushLog) + Len(buffer)
          /\ \A r \in 1..MaxGenerated :
                Cardinality(PlacesOf(r)) = IF r <= totalGenerated THEN 1 ELSE 0)
    /\ [][totalGenerated' >= totalGenerated]_producerVars
    /\ [][Tick =>
             /\ totalGenerated' = totalGenerated + 1
             /\ \/ /\ buffer' = Append(buffer, totalGenerated')
                   /\ flushLog' = flushLog
                \/ /\ buffer' = <<>>
                   /\ Len(flushLog') = Len(flushLog) + 1
                   /\ flushLog'[Len(flushLog')].records =
                         Append(buffer, totalGenerated')
                   /\ SubSeq(flushLog', 1, Len(flushLog)) = flushLog
         ]_producerVars

\* every record was generated: one batch was flushed and the last record is
\* pending on a running producer
C32_Witness ==
    /\ totalGenerated = MaxGenerated
    /\ Len(flushLog) = 1
    /\ Len(buffer) = 1
    /\ isRunning

\* C33: start() on a running producer changes nothing; at most one tick
\* timer is active, one is active exactly when the producer is running, it is
\* the one this.interval holds, and a tick occurs only while it is running.
C33_SingleTickTimer ==
    /\ [](/\ timers \in {0, 1}
          /\ (timers = 1) = isRunning
          /\ interval = isRunning)
    /\ [][start /\ isRunning =>
             UNCHANGED <<rate, isRunning, interval, timers, buffer,
                         totalGenerated, inflight, flushLog, wsClients,
                         readyState>>]_producerVars
    /\ [][Tick => isRunning]_producerVars

\* a producer that was started, had its rate changed with a record pending
\* and ticked again on the timer set by the change: one timer is active
C33_Witness ==
    /\ isRunning
    /\ timers = 1
    /\ rate # 1
    /\ \E i, j \in 1..Len(flushLog) :
          /\ i < j
          /\ flushLog[i].trigger = "stop"
          /\ flushLog[j].trigger = "tick"

\* C34: a subscriber is out of the live set once its connection has reported
\* close or error, once a send to it failed in a broadcast, and once the send
\* of its stats snapshot failed.
C34_NoDeadMember ==
    /\ [](pass.done => wsClients \cap pass.failed = {})
    /\ [][\A c \in Clients :
             /\ SocketClose(c) \/ SocketError(c) => c \notin wsClients'
             /\ sendStatsToClient(c) /\ call'.sendFailed => c \notin wsClients'
         ]_producerVars

\* C37: a batch that is broadcast was flushed after every batch broadcast
\* before it (records are numbered in generation order, so the batch flushed
\* later holds the larger numbers).
C37_BroadcastInFlushOrder ==
    [][\A batch \in inflight :
          PersistOk(batch) =>
             \A earlier \in broadcasted : earlier[1] < batch[1]
      ]_producerVars

(***************************************************************************)
(* useWebSocket properties                                                 *)
(***************************************************************************)

IsCloseEvent == \E i \in Sockets : onclose(i)

Outstanding == reconnectTimers # {} \/ \E i \in Sockets : Live(i)

C5_DisconnectIsTerminal ==
    manual =>
        /\ connectionStatus = "disconnected"
        /\ reconnectTimers = {}
        /\ heartbeats = {}

\* the strings of the send calls made so far, in call order
SentSoFar == [k \in 1..Len(sendLog) |-> msgString(sendLog[k])]

IsPrefix(a, b) == Len(a) <= Len(b) /\ SubSeq(b, 1, Len(a)) = a

\* C14: the strings transmitted so far followed by the buffered ones are the
\* strings of the send calls in call order, each once; a send call transmits
\* at once and buffers nothing when the state is 'connected', otherwise it
\* appends to the buffer and transmits nothing; a buffered string leaves the
\* buffer only in a step that enters 'connected', which transmits it.
C14_SendWhenConnected ==
    /\ [](transmitted \o messageBuffer = SentSoFar)
    /\ [][/\ \A message \in Messages :
               sendMessage(message) =>
                  IF connectionStatus = "connected"
                  THEN /\ transmitted' = Append(transmitted, msgString(message))
                       /\ messageBuffer' = messageBuffer
                  ELSE /\ messageBuffer' = Append(messageBuffer, msgString(message))
                       /\ transmitted' = transmitted
          /\ ~IsPrefix(messageBuffer, messageBuffer') =>
                /\ connectionStatus' = "connected"
                /\ transmitted' = transmitted \o messageBuffer
         ]_clientVars

IsMessageEvent == \E i \in Sockets : \E frame \in Frames : onmessage(i, frame)

\* C15: a 'pong' is never passed to the callback; the message event of any
\* other frame that parses to a message passes the parsed message to the
\* callback once, after everything passed before; nothing else is passed.
C15_InboundForwarding ==
    /\ [](\A k \in 1..Len(forwarded) : forwarded[k].type # "pong")
    /\ [][/\ \A i \in Sockets :
               /\ onmessage(i, "pong") => forwarded' = forwarded
               /\ onmessage(i, "batch") =>
                     forwarded' = Append(forwarded, [isNull |-> FALSE, type |-> "batch"])
               /\ onmessage(i, "untyped") =>
                     forwarded' = Append(forwarded, [isNull |-> FALSE, type |-> "undefined"])
          /\ forwarded' # forwarded => IsMessageEvent
         ]_clientVars

\* two frames have arrived and only one of them, a 'batch', was passed to the
\* callback: the other one was a 'pong' or did not parse to a message
C15_Witness ==
    /\ arrivals = 2
    /\ Len(forwarded) = 1
    /\ forwarded[1].type = "batch"

IsOpenEvent == \E i \in Sockets : onopen(i)

IsCloseOrErrorEvent == \E i \in Sockets : onclose(i) \/ onerror(i)

\* C23: the connection state changes only by disconnected -> connecting on
\* connect(), connecting -> connected on open, connected or connecting ->
\* reconnecting (attempts below the maximum) or failed (otherwise) on close or
\* error, reconnecting -> connecting when the reconnect timer fires, and
\* connected -> disconnected on disconnect(); 'connected' is entered only on
\* an open event.
C23_ListedTransitionsOnly ==
    [][connectionStatus' # connectionStatus =>
          /\ \/ /\ connectionStatus = "disconnected"
                /\ connectionStatus' = "connecting"
                /\ connect
             \/ /\ connectionStatus = "connecting"
                /\ connectionStatus' = "connected"
                /\ IsOpenEvent
             \/ /\ connectionStatus \in {"connected", "connecting"}
                /\ IsCloseOrErrorEvent
                /\ connectionStatus' =
                      IF reconnectAttempts < MAX_RECONNECT_ATTEMPTS
                      THEN "reconnecting" ELSE "failed"
             \/ /\ connectionStatus = "reconnecting"
                /\ connectionStatus' = "connecting"
                /\ \E t \in Sockets : ReconnectTimerFires(t)
             \/ /\ connectionStatus = "connected"
                /\ connectionStatus' = "disconnected"
                /\ disconnect
          /\ connectionStatus' = "connected" => IsOpenEvent
      ]_clientVars

\* C24: the message event of a frame that cannot be parsed passes nothing to
\* the callback and changes neither the connection state, the attempts
\* counter, the timers, the sockets nor the outbound buffer; a 'batch' that
\* arrives after it is passed to the callback.
C24_MalformedDropped ==
    [][\A i \in Sockets :
          /\ onmessage(i, "malformed") =>
                /\ forwarded' = forwarded
                /\ UNCHANGED <<lifecycleVars, messageBuffer, transmitted>>
          /\ (parseFailedAt > 0 /\ onmessage(i, "batch")) =>
                forwarded' = Append(forwarded, [isNull |-> FALSE, type |-> "batch"])
      ]_clientVars

\* the first frame could not be parsed, the second was passed to the callback
\* and the client is still connected on its first socket
C24_Witness ==
    /\ parseFailedAt = 1
    /\ arrivals = 2
    /\ Len(forwarded) = 1
    /\ connectionStatus = "connected"
    /\ wsRef = 1
    /\ socket[1] = "open"

\* C28: a close event, and equally an error event, delivered while the state
\* is 'connected' stops the heartbeat and, with attempts below the maximum,
\* adds one to attempts, enters 'reconnecting' and schedules one reconnect.
C28_CloseOrErrorWhileConnected ==
    [][(connectionStatus = "connected" /\ IsCloseOrErrorEvent) =>
          /\ heartbeatIntervalRef' = NULL
          /\ heartbeats' = {}
          /\ reconnectAttempts < MAX_RECONNECT_ATTEMPTS =>
                /\ reconnectAttempts' = reconnectAttempts + 1
                /\ connectionStatus' = "reconnecting"
                /\ Cardinality(reconnectTimers') = Cardinality(reconnectTimers) + 1
      ]_clientVars

\* C29: an open event resets attempts to 0, transmits the buffered strings in
\* the order they were buffered, leaves the buffer empty and starts the
\* heartbeat of its socket; a heartbeat belongs to a socket that has opened
\* and sends a ping exactly when it fires while that socket is open.
C29_EnteringConnected ==
    /\ [](\A h \in heartbeats : socket[h] \notin {"none", "connecting"})
    /\ [][/\ \A i \in Sockets :
               onopen(i) =>
                  /\ connectionStatus' = "connected"
                  /\ reconnectAttempts' = 0
                  /\ transmitted' = transmitted \o messageBuffer
                  /\ messageBuffer' = <<>>
                  /\ i \in heartbeats'
                  /\ heartbeatIntervalRef' = i
          /\ \A h \in Sockets :
               HeartbeatFires(h) =>
                  pinged' = IF socket[h] = "open" THEN pinged \cup {h} ELSE pinged
          /\ pinged' # pinged => \E h \in Sockets : HeartbeatFires(h)
         ]_clientVars

\* after a reconnect the second socket opened with two strings buffered: both
\* were transmitted in order, the buffer is empty, attempts is 0 and the
\* heartbeat of the second socket has sent a ping
C29_Witness ==
    /\ connectionStatus = "connected"
    /\ wsRef = 2
    /\ socket[1] = "closed"
    /\ socket[2] = "open"
    /\ reconnectAttempts = 0
    /\ Len(transmitted) = MaxSends
    /\ messageBuffer = <<>>
    /\ pinged = {2}

\* a socket that is connecting or open (one being closed is not counted)
InUse(i) == socket[i] \in {"connecting", "open"}

\* C38: at most one socket is connecting or open and it is the one wsRef
\* holds; at most one heartbeat interval runs and it is the one
\* heartbeatIntervalRef holds; at most one reconnect timeout is pending and it
\* is the one reconnectTimeoutRef holds.
C38_NoOrphans ==
    /\ \A i \in Sockets : InUse(i) => wsRef = i
    /\ heartbeats \subseteq {heartbeatIntervalRef}
    /\ reconnectTimers \subseteq {reconnectTimeoutRef}

\* C39: isConnected is true exactly when connectionStatus is 'connected'.
C39_FlagMatchesStatus ==
    isConnected = (connectionStatus = "connected")

(***************************************************************************)
(* useDataBuffer properties                                                *)
(***************************************************************************)

\* C7: while records are pending a commit is scheduled, and it is due no
\* later than BATCH_UPDATE_INTERVAL after the oldest pending record was
\* ingested: later ingests do not postpone it.
C7_CommitDeadline ==
    pendingBatchRef # <<>> =>
        /\ commitDue # -1
        /\ commitDue <= oldestPendingAt + BATCH_UPDATE_INTERVAL

\* C8: the committed store never holds more than MAX_BUFFER_SIZE records; it
\* always equals the most recent MAX_BUFFER_SIZE committed records (all of
\* them when fewer were committed since the last clear) in arrival order, so
\* once more than MAX_BUFFER_SIZE records have been ingested and committed it
\* holds exactly the MAX_BUFFER_SIZE most recently ingested ones.
C8_CappedStore ==
    LET committed == ingested - Len(pendingBatchRef)
        kept == Min(total, MAX_BUFFER_SIZE)
    IN  /\ Len(records) <= MAX_BUFFER_SIZE
        /\ records = [i \in 1..kept |-> committed - kept + i]
        /\ (total > MAX_BUFFER_SIZE /\ pendingBatchRef = <<>>) =>
              records = [i \in 1..MAX_BUFFER_SIZE |-> ingested - MAX_BUFFER_SIZE + i]

\* more records than the capacity were ingested and committed, the oldest
\* ones were evicted
C8_Witness ==
    /\ total > MAX_BUFFER_SIZE
    /\ total = ingested
    /\ pendingBatchRef = <<>>
    /\ Len(records) = MAX_BUFFER_SIZE
    /\ records[1] > 1

Elems(seq) == {seq[i] : i \in 1..Len(seq)}

\* C18: the total is the number of records ingested since the last clear
\* that have been committed, whatever was evicted: with nothing pending it is
\* the number ingested, also when that exceeds MAX_BUFFER_SIZE.
C18_TotalCountsEveryRecord ==
    /\ total = ingested - clearedAt - Len(pendingBatchRef)
    /\ pendingBatchRef = <<>> => total = ingested - clearedAt

\* more records than the store holds were ingested and committed, none was
\* cleared: the store is full and the total is the number ingested
C18_Witness ==
    /\ clearedAt = 0
    /\ pendingBatchRef = <<>>
    /\ ingested > MAX_BUFFER_SIZE
    /\ total = ingested
    /\ Len(records) = MAX_BUFFER_SIZE

\* C19: clearData leaves the pending list and the store empty and no commit
\* scheduled; from then on a commit is scheduled only after a later
\* addRecords, and no record ingested before the clear is in the store or in
\* the pending list.
C19_ClearIsComplete ==
    /\ [](/\ \A r \in Elems(records) \cup Elems(pendingBatchRef) : r > clearedAt
          /\ commitDue # -1 => ingested > clearedAt)
    /\ [][/\ clearData =>
               /\ records' = <<>>
               /\ pendingBatchRef' = <<>>
               /\ commitDue' = -1
          /\ (CommitTimerFires /\ records' # records) => ingested > clearedAt
         ]_bufferVars

\* records were committed, more were pending with their commit scheduled,
\* clearData was called, and time went past the moment that commit was due
C19_Witness ==
    /\ clearedAt > MAX_BUFFER_SIZE
    /\ ingested = clearedAt
    /\ total = 0
    /\ records = <<>>
    /\ pendingBatchRef = <<>>
    /\ commitDue = -1
    /\ bnow = MaxBufTime

\* C25: with a category selected the exposed sequence holds exactly the
\* records of the store that have the category, each once, in store order;
\* setFilter changes neither the store, the pending list, the scheduled commit
\* nor the total.
C25_FilterIsReadOnlyView ==
    /\ [](Truthy(filter) =>
             /\ Elems(filteredRecords) =
                   {r \in Elems(records) : CategoryOf(r) = filter}
             /\ \A i, j \in 1..Len(filteredRecords) :
                   i < j => filteredRecords[i] < filteredRecords[j])
    /\ [](\A i, j \in 1..Len(records) : i < j => records[i] < records[j])
    /\ [][\A f \in Categories \cup {"null"} :
             setFilter(f) =>
                /\ filter' = f
                /\ UNCHANGED <<records, pendingBatchRef, commitDue, total>>
         ]_bufferVars

\* a category is selected, the full store holds a record of that category and
\* a record of another one, and only the first is exposed
C25_Witness ==
    /\ Truthy(filter)
    /\ Len(records) = MAX_BUFFER_SIZE
    /\ Len(filteredRecords) = 1
    /\ pendingBatchRef # <<>>

\* C35: total never decreases, whatever is ingested, committed, filtered or
\* cleared.
C35_TotalMonotonic ==
    [][total' >= total]_bufferVars

\* C36: a recomputation of the throughput is never more than one metrics
\* interval away from the previous one (or from the mount), however often total
\* changes; each recomputation sets the value to the change of total since
\* the previous one divided by the seconds elapsed since then.
C36_ThroughputCadence ==
    /\ [](bnow - metricsRef.lastMeasureTime <= MetricsInterval)
    /\ [][MetricsTimerFires =>
             LET elapsed == bnow - metricsRef.lastMeasureTime
             IN  metricsRef'.recordsPerSecond * elapsed =
                    (total - metricsRef.lastRecordCount) * MetricsMsPerSecond
         ]_bufferVars

====
